---- MODULE Spec2Model ----
(***************************************************************************)
(* A model of extractSchemaCoordinates (src/extract-schema-coordinates.ts): *)
(* the schema index (typeToFieldsMap), the seeding of the work queue from   *)
(* the document's definitions, and the walk loop that drains the queue.     *)
(*                                                                          *)
(* The two collaborators, graphql-js parse and buildSchema, are inputs:     *)
(* the model starts from a parsed document (documentAst) and a built schema *)
(* (builtSchema).  AST nodes are records that carry the fields the code     *)
(* reads; a field the parser leaves undefined (a leaf Field's selectionSet, *)
(* an untyped InlineFragment's typeCondition) is absent from the record.    *)
(***************************************************************************)
EXTENDS Integers, Sequences, FiniteSets, TLC

(***************************************************************************)
(* Bounds of the model.                                                     *)
(***************************************************************************)
\* the largest number of nodes (definitions, variable definitions and selections) of
\* the documents that are enumerated in full
MaxNodes == 4
\* the largest number of earlier calls of a process
MaxCalls == 2

(***************************************************************************)
(* Type nodes of the AST: NamedType, ListType, NonNullType.                 *)
(***************************************************************************)
NamedType(n) == [kind |-> "NamedType", name |-> n]
ListType(t) == [kind |-> "ListType", type |-> t]
NonNullType(t) == [kind |-> "NonNullType", type |-> t]

\* getTypeNameFromType with its recursion skipped: reads .name of the node it is given
getTypeNameFromType_NoUnwrap(type) ==
    IF "name" \in DOMAIN type THEN type.name ELSE "undefined"

\* getTypeNameFromType: unwrap .type until a node without .type is reached; that node
\* is a NamedType (the assertion of line 38 holds of every node the parser builds)
RECURSIVE getTypeNameFromType(_)
getTypeNameFromType(type) ==
    IF "type" \in DOMAIN type
    THEN getTypeNameFromType(type.type)
    ELSE type.name

\* a set of built-in scalars that was left empty
builtInScalars_Empty == {}

\* builtInScalars
builtInScalars == {"Int", "Float", "String", "Boolean", "ID"}

(***************************************************************************)
(* Built schemas.  A type of the type map has a name, a kind and, for       *)
(* object and interface types, its fields in declaration order; a field     *)
(* declared in SDL has an astNode with its type node, an introspection      *)
(* field has none.                                                          *)
(***************************************************************************)
SdlField(n, t) == [name |-> n, astNode |-> [kind |-> "FieldDefinition", type |-> t]]
BuiltinField(n) == [name |-> n]
ObjectType(n, fs) == [kind |-> "GraphQLObjectType", name |-> n, fields |-> fs]
InterfaceType(n, fs) == [kind |-> "GraphQLInterfaceType", name |-> n, fields |-> fs]
UnionType(n, ms) == [kind |-> "GraphQLUnionType", name |-> n, types |-> ms]
InputObjectType(n) == [kind |-> "GraphQLInputObjectType", name |-> n]
ScalarType(n) == [kind |-> "GraphQLScalarType", name |-> n]

\* the introspection and scalar types buildSchema puts in every type map
StandardTypes ==
    << ScalarType("String"), ScalarType("Int"), ScalarType("Boolean"),
       ObjectType("__Schema", << BuiltinField("types"), BuiltinField("queryType") >>),
       ObjectType("__Type", << BuiltinField("name"), BuiltinField("fields") >>) >>

\* testing/pets.schema.graphql as built by buildSchema (extend type merged)
PetsSchema ==
    [ rootTypes |-> [query |-> "Root", mutation |-> "Mutation"],
      typeMap |->
        << ObjectType("Root",
              << SdlField("animalOwner", NamedType("Human")),
                 SdlField("pets", ListType(NamedType("Pet"))),
                 SdlField("allSpecies", ListType(NamedType("Animal"))) >>),
           ObjectType("Mutation",
              << SdlField("addCat", NonNullType(NamedType("Cat"))),
                 SdlField("addVet", NonNullType(NamedType("Boolean"))) >>),
           InputObjectType("VetDetailsInput"),
           InterfaceType("Animal", << SdlField("name", NamedType("String")) >>),
           ObjectType("Dog",
              << SdlField("breed", NamedType("String")),
                 SdlField("name", NamedType("String")) >>),
           ObjectType("Cat",
              << SdlField("favoriteMilkBrand", NamedType("String")),
                 SdlField("name", NamedType("String")) >>),
           ObjectType("Parrot",
              << SdlField("name", NamedType("String")),
                 SdlField("wingSpan", NamedType("Int")) >>),
           UnionType("Pet", << "Dog", "Cat", "Parrot" >>),
           ObjectType("Human",
              << SdlField("name", NamedType("String")),
                 SdlField("age", NamedType("Int")),
                 SdlField("contactDetails", NamedType("ContactDetails")) >>),
           ObjectType("ContactDetails",
              << SdlField("phone", NamedType("String")),
                 SdlField("email", NamedType("String")),
                 SdlField("address", NamedType("Address")) >>),
           ObjectType("Address",
              << SdlField("streetNumber", NamedType("Int")),
                 SdlField("zip", NamedType("String")) >>) >> \o StandardTypes ]

\* a schema without a schema block (root type Query by its conventional name, no
\* mutation and no subscription type) whose interface declares an object-typed field
KennelSchema ==
    [ rootTypes |-> [query |-> "Query"],
      typeMap |->
        << ObjectType("Query",
              << SdlField("animalOwner", NamedType("Animal")),
                 SdlField("allSpecies",
                          NonNullType(ListType(NonNullType(NamedType("Animal"))))) >>),
           InterfaceType("Animal",
              << SdlField("name", NamedType("String")),
                 SdlField("animalOwner", NamedType("Human")) >>),
           ObjectType("Dog",
              << SdlField("name", NonNullType(NamedType("String"))),
                 SdlField("animalOwner", NonNullType(NamedType("Human"))) >>),
           ObjectType("Human",
              << SdlField("name", NamedType("String")),
                 SdlField("animalOwner", NamedType("Human")) >>) >>
        \o StandardTypes ]

\* the schema texts of the model, and buildSchema on them
SchemaTexts == {"pets.schema.graphql", "kennel.schema.graphql"}
buildSchema(schemaText) ==
    IF schemaText = "pets.schema.graphql" THEN PetsSchema ELSE KennelSchema

\* Range of a sequence
Range(s) == {s[i] : i \in DOMAIN s}

\* isObjectType answering for every type that has fields
isObjectType_HasFields(type) == "fields" \in DOMAIN type

\* isObjectType
isObjectType(type) == type.kind = "GraphQLObjectType"

\* SelectSeq over the fields of a type: those with an astNode, each mapped to
\* {field, type}
RECURSIVE FieldEntries(_)
FieldEntries(fields) ==
    IF fields = << >> THEN << >>
    ELSE LET f == Head(fields)
         IN  (IF "astNode" \in DOMAIN f
              THEN << [field |-> f.name, type |-> getTypeNameFromType(f.astNode.type)] >>
              ELSE << >>) \o FieldEntries(Tail(fields))

\* the own properties of typeToFieldsMap after lines 107-116: one per object type
BuildTypeToFieldsMap(schema) ==
    LET objs == {t \in Range(schema.typeMap) : isObjectType(t)}
    IN  [n \in {t.name : t \in objs} |->
            FieldEntries((CHOOSE t \in objs : t.name = n).fields)]

(***************************************************************************)
(* Parsed documents.  A selection set is a record with its selections; a    *)
(* Field has a selectionSet only when the document writes one, an           *)
(* InlineFragment has a typeCondition only when the document writes one.    *)
(***************************************************************************)
SelectionSet(sels) == [selections |-> sels]
Field(n) == [kind |-> "Field", name |-> n]
FieldWith(n, ss) == [kind |-> "Field", name |-> n, selectionSet |-> ss]
FragmentSpread(n) == [kind |-> "FragmentSpread", name |-> n]
InlineFragment(ss) == [kind |-> "InlineFragment", selectionSet |-> ss]
InlineFragmentOn(t, ss) ==
    [kind |-> "InlineFragment", typeCondition |-> NamedType(t), selectionSet |-> ss]
VariableDefinition(v, t) == [kind |-> "VariableDefinition", variable |-> v, type |-> t]
OperationDefinition(op, vars, ss) ==
    [kind |-> "OperationDefinition", operation |-> op, variableDefinitions |-> vars,
     selectionSet |-> ss]
\* an operation the document gives a name
NamedOperationDefinition(n, op, vars, ss) ==
    [kind |-> "OperationDefinition", name |-> n, operation |-> op,
     variableDefinitions |-> vars, selectionSet |-> ss]
FragmentDefinition(n, t, ss) ==
    [kind |-> "FragmentDefinition", name |-> n, typeCondition |-> NamedType(t),
     selectionSet |-> ss]
\* a type-system definition, which parse accepts in a document
TypeDefinition(n) == [kind |-> "ObjectTypeDefinition", name |-> n]

\* the names the documents of the model are written with
FieldNames == {"animalOwner", "name"}
FragmentNames == {"F"}
\* Dog is declared by both schemas, Snake and constructor by neither
TypeConditions == {"Dog", "Snake", "constructor"}
OperationKinds == {"query", "mutation", "subscription"}
VariableTypes ==
    { NonNullType(NamedType("VetDetailsInput")),
      ListType(NonNullType(NamedType("String"))) }

LeafSelections ==
    {Field(n) : n \in FieldNames} \cup {FragmentSpread(n) : n \in FragmentNames}

\* the selections with the given selection set
ParentSelections(ss) ==
    {FieldWith(n, ss) : n \in FieldNames}
        \cup {InlineFragmentOn(t, ss) : t \in TypeConditions}
        \cup {InlineFragment(ss)}

\* the selections of k selections in all, nested ones included, given the table F of
\* the sequences of fewer selections
Trees(F, k) ==
    IF k = 1 THEN LeafSelections
    ELSE UNION {ParentSelections(SelectionSet(f)) : f \in F[k]}

\* ForestTable(F, m)[n + 1]: the sequences of selections that hold n selections in
\* all, for n in 0..m; F is the table built so far
RECURSIVE ForestTable(_, _)
ForestTable(F, m) ==
    IF Len(F) > m THEN F
    ELSE LET n == Len(F)
             next == UNION { {<<t>> \o f : t \in Trees(F, k), f \in F[n - k + 1]} :
                             k \in 1..n }
         IN  ForestTable(Append(F, next), m)

\* the lists of k variable definitions
RECURSIVE VariableLists(_)
VariableLists(k) ==
    IF k = 0 THEN {<< >>}
    ELSE {Append(vs, VariableDefinition("v" \o ToString(k), t)) :
              vs \in VariableLists(k - 1), t \in VariableTypes}

\* the selection sets of n selections (the grammar has no empty selection set)
SelectionSets(F, n) == IF n < 1 THEN {} ELSE {SelectionSet(f) : f \in F[n + 1]}

\* the definitions of n nodes, the definition itself counted
DefinitionsOfSize(F, n) ==
    IF n = 1 THEN {TypeDefinition("Snake")}
    ELSE UNION { {OperationDefinition(op, vs, ss) :
                     op \in OperationKinds, vs \in VariableLists(k),
                     ss \in SelectionSets(F, n - 1 - k)} : k \in 0..(n - 2) }
         \cup {FragmentDefinition(f, t, ss) :
                  f \in FragmentNames, t \in TypeConditions,
                  ss \in SelectionSets(F, n - 1)}

\* DefinitionSizes(S, F, m)[n]: the definitions of n nodes, for n in 1..m
RECURSIVE DefinitionSizes(_, _, _)
DefinitionSizes(S, F, m) ==
    IF Len(S) >= m THEN S
    ELSE DefinitionSizes(Append(S, DefinitionsOfSize(F, Len(S) + 1)), F, m)

\* DefinitionTable(D, S, m)[n + 1]: the lists of definitions of n nodes in all, for n
\* in 0..m; D is the table built so far
RECURSIVE DefinitionTable(_, _, _)
DefinitionTable(D, S, m) ==
    IF Len(D) > m THEN D
    ELSE LET n == Len(D)
         IN  DefinitionTable(
                 Append(D, UNION { {<<x>> \o rest : x \in S[k], rest \in D[n - k + 1]} :
                                   k \in 1..n }), S, m)

Document(ds) == [kind |-> "Document", definitions |-> ds]

\* Forests[n + 1]: the sequences of n selections in all, for n in 0..(MaxNodes - 1)
Forests == ForestTable(<< {<< >>} >>, MaxNodes - 1)

\* DefinitionLists[n + 1]: the lists of definitions of n nodes in all, for n in
\* 0..(MaxNodes - 1)
DefinitionLists ==
    DefinitionTable(<< {<< >>} >>, DefinitionSizes(<< >>, Forests, MaxNodes - 1),
                    MaxNodes - 1)

\* ast is a document of at most MaxNodes nodes (the grammar has no empty document):
\* a first definition, then a list of definitions
SmallDocument(ast) ==
    \E m \in 0..(MaxNodes - 1) : \E rest \in DefinitionLists[m + 1] :
        \/ ast = Document(<< TypeDefinition("Snake") >> \o rest)
        \/ \E k \in 0..(MaxNodes - m - 2) : \E vs \in VariableLists(k) :
             \E n \in 1..(MaxNodes - m - 1 - k) : \E f \in Forests[n + 1] :
               \E op \in OperationKinds :
                 ast = Document(<< OperationDefinition(op, vs, SelectionSet(f)) >>
                                \o rest)
        \/ \E n \in 1..(MaxNodes - m - 1) : \E f \in Forests[n + 1] :
             \E name \in FragmentNames, t \in TypeConditions :
               ast = Document(<< FragmentDefinition(name, t, SelectionSet(f)) >>
                              \o rest)

\* the documents of the test suite (arguments and directives, which the function
\* never reads, are left out)
Query(sels) == OperationDefinition("query", << >>, SelectionSet(sels))
Sub(n, sels) == FieldWith(n, SelectionSet(sels))

TestDocuments ==
    { \* basic query
      Document(<< Query(<< Sub("animalOwner",
                    << Field("name"),
                       Sub("contactDetails", << Field("email") >>) >>) >>) >>),
      \* basic mutation
      Document(<< OperationDefinition("mutation", << >>, SelectionSet(
                    << Sub("addCat", << Field("name"),
                                        Field("favoriteMilkBrand") >>) >>)) >>),
      \* extended types
      Document(<< Query(<< Sub("animalOwner",
                    << Field("name"),
                       Sub("contactDetails",
                           << Field("email"),
                              Sub("address", << Field("zip") >>) >>) >>) >>) >>),
      \* multiple operations
      Document(<< Query(<< Sub("animalOwner", << Field("name") >>) >>),
                  Query(<< Sub("animalOwner",
                    << Sub("contactDetails", << Field("email") >>) >>) >>) >>),
      \* includes non-existant fields as non-leaf nodes
      Document(<< Query(<< Sub("animalOwner",
                    << Field("name"),
                       Sub("contactDetails",
                           << Field("email"),
                              Sub("I_DONT_EXIST",
                                  << Field("foo"), Field("bar") >>) >>) >>) >>) >>),
      \* fragments
      Document(<< Query(<< Sub("animalOwner", << Field("name") >>),
                           Sub("allSpecies", << FragmentSpread("doggoDetails"),
                                                FragmentSpread("catFacts") >>),
                           Sub("pets", << FragmentSpread("parrotParticulars") >>) >>),
                  FragmentDefinition("doggoDetails", "Dog",
                                     SelectionSet(<< Field("breed") >>)),
                  FragmentDefinition("catFacts", "Cat",
                      SelectionSet(<< Field("favoriteMilkBrand"), Field("name") >>)),
                  FragmentDefinition("parrotParticulars", "Parrot",
                                     SelectionSet(<< Field("wingSpan") >>)) >>),
      \* inline fragments
      Document(<< Query(<< Sub("animalOwner", << Field("name") >>),
                           Sub("allSpecies",
                               << InlineFragmentOn("Dog", SelectionSet(
                                      << Field("breed") >>)),
                                  InlineFragmentOn("Cat", SelectionSet(
                                      << Field("favoriteMilkBrand"),
                                         Field("name") >>)) >>),
                           Sub("pets",
                               << InlineFragmentOn("Parrot", SelectionSet(
                                      << Field("wingSpan") >>)) >>) >>) >>),
      \* inline fragments with interface fields
      Document(<< Query(<< Sub("animalOwner", << Field("name") >>),
                           Sub("allSpecies",
                               << Field("name"),
                                  InlineFragmentOn("Dog", SelectionSet(
                                      << Field("breed"), Field("name") >>)) >>) >>) >>),
      \* inline fragments without a type condition
      Document(<< NamedOperationDefinition("Foo", "query",
                    << VariableDefinition("expandedInfo", NamedType("Boolean")) >>,
                    SelectionSet(<< Sub("allSpecies",
                        << InlineFragment(SelectionSet(<< Field("name") >>)) >>) >>)) >>),
      \* copes with types that don't exist in the schema
      Document(<< Query(<< Sub("allSpecies",
                    << Field("name"),
                       InlineFragmentOn("Snake", SelectionSet(
                           << Sub("skin", << Field("color") >>) >>)) >>) >>) >>),
      \* shows inputs
      Document(<< NamedOperationDefinition("AddVet", "mutation",
                    << VariableDefinition("vetInfo",
                                          NonNullType(NamedType("VetDetailsInput"))),
                       VariableDefinition("somethingElse",
                                          NonNullType(NamedType("String"))) >>,
                    SelectionSet(<< Field("addVet") >>)) >>),
      \* throws error on unsupported operation types
      Document(<< NamedOperationDefinition("Foo", "subscription", << >>,
                                           SelectionSet(<< Field("bar") >>)) >>) }

\* documents with fragments named like a type, spread more than once, and spreading
\* each other
FragmentDocuments ==
    { Document(<< Query(<< Sub("allSpecies", << FragmentSpread("Dog") >>) >>),
                  FragmentDefinition("Dog", "Dog", SelectionSet(<< Field("breed") >>)) >>),
      Document(<< Query(<< Sub("allSpecies", << FragmentSpread("F") >>),
                           Sub("animalOwner", << FragmentSpread("F") >>) >>),
                  FragmentDefinition("F", "Dog", SelectionSet(
                      << Sub("animalOwner", << Field("name") >>) >>)) >>),
      Document(<< FragmentDefinition("A", "Dog", SelectionSet(
                      << Field("name"), FragmentSpread("B") >>)),
                  Query(<< Sub("allSpecies", << FragmentSpread("A") >>) >>),
                  FragmentDefinition("B", "Human", SelectionSet(
                      << FragmentSpread("A"), Field("name") >>)) >>) }

\* a document that selects, directly under the union-typed field pets, a field with a
\* selection set of its own next to a narrowing inline fragment
UnionDocuments ==
    { Document(<< Query(<< Sub("pets",
                    << Sub("name", << Field("name") >>),
                       InlineFragmentOn("Dog", SelectionSet(<< Field("breed") >>)) >>) >>) >>) }

\* a document with a variable of an input type, a field with a selection set and a
\* fragment definition after the operation
VariableDocuments ==
    { Document(<< NamedOperationDefinition("AddCat", "mutation",
                    << VariableDefinition("vetInfo",
                                          NonNullType(NamedType("VetDetailsInput"))) >>,
                    SelectionSet(<< Sub("addCat", << FragmentSpread("catFacts") >>) >>)),
                  FragmentDefinition("catFacts", "Cat",
                      SelectionSet(<< Field("favoriteMilkBrand") >>)) >>) }

(***************************************************************************)
(* The function, operator by operator.  A frame of the queue holds a type   *)
(* name and a reference to a selection set node of the document; a          *)
(* reference is the node's place in the document: <<d>> is the selection    *)
(* set of definition d, and p \o <<i>> is the selection set of the i-th     *)
(* selection of the selection set p.                                        *)
(***************************************************************************)
Front(s) == SubSeq(s, 1, Len(s) - 1)
Last(s) == s[Len(s)]

RECURSIVE SelectionSetAt(_, _)
SelectionSetAt(ast, ref) ==
    IF Len(ref) = 1 THEN ast.definitions[ref[1]].selectionSet
    ELSE SelectionSetAt(ast, Front(ref)).selections[Last(ref)].selectionSet

\* what a callback hands on: the error it throws (NoError when it returns), the frames
\* it pushes on the queue and the coordinates it adds to the set
NoError == [name |-> "none", message |-> ""]
GraphQLError(operation) ==
    [name |-> "GraphQLError",
     message |-> "Schema is not configured to execute " \o operation \o " operation."]
AssertionError ==
    [name |-> "AssertionError",
     message |-> "Expected to find a query or mutation operation in the provided document"]
TypeError ==
    [name |-> "TypeError", message |-> "typeAttributes.find is not a function"]
Effect(e, fs, cs) == [thrown |-> e, frames |-> fs, coordinates |-> cs]
Frame(t, ref) == [type |-> t, selectionSet |-> ref]

\* getRootType falling back on the query root type for an operation kind the schema
\* does not bind
getRootType_QueryFallback(schema, operation) ==
    IF operation \in DOMAIN schema.rootTypes
    THEN << [name |-> schema.rootTypes[operation]] >>
    ELSE << [name |-> schema.rootTypes["query"]] >>

\* builtSchema.getRootType(operation): << >> models undefined
getRootType(schema, operation) ==
    IF operation \in DOMAIN schema.rootTypes
    THEN << [name |-> schema.rootTypes[operation]] >>
    ELSE << >>

\* an operation whose frame carries the operation kind instead of the root type name
SeedOperation_ByKind(definition, ref, schema) ==
    LET rootType == getRootType(schema, definition.operation)
    IN  IF rootType = << >>
        THEN Effect(GraphQLError(definition.operation), << >>, {})
        ELSE Effect(NoError, << Frame(definition.operation, ref) >>,
                    {getTypeNameFromType(variable) :
                        variable \in Range(definition.variableDefinitions)}
                      \ builtInScalars)

\* only the first definition of the document taken for an operation
SeedOperation_FirstOnly(definition, ref, schema) ==
    LET rootType == getRootType(schema, definition.operation)
    IN  IF rootType = << >>
        THEN Effect(GraphQLError(definition.operation), << >>, {})
        ELSE IF ref # << 1 >> THEN Effect(NoError, << >>, {})
        ELSE Effect(NoError, << Frame(rootType[1].name, ref) >>,
                    {getTypeNameFromType(variable) :
                        variable \in Range(definition.variableDefinitions)}
                      \ builtInScalars)

\* lines 133-152: an operation definition
SeedOperation(definition, ref, schema) ==
    LET rootType == getRootType(schema, definition.operation)
    IN  IF rootType = << >>
        THEN Effect(GraphQLError(definition.operation), << >>, {})
        ELSE Effect(NoError, << Frame(rootType[1].name, ref) >>,
                    {getTypeNameFromType(variable) :
                        variable \in Range(definition.variableDefinitions)}
                      \ builtInScalars)

\* a fragment definition seeded under its own name instead of its type condition
SeedFragment_ByName(definition, ref) == Effect(NoError, << Frame(definition.name, ref) >>, {})

\* a fragment definition that pushes no frame
SeedFragment_Skipped(definition, ref) == Effect(NoError, << >>, {})

\* lines 162-165: a fragment definition
SeedFragment(definition, ref) ==
    Effect(NoError, << Frame(definition.typeCondition.name, ref) >>, {})

\* lines 125-166: the callback of documentAst.definitions.forEach
SeedDefinition(definition, ref, schema) ==
    IF definition.kind = "OperationDefinition" THEN SeedOperation(definition, ref, schema)
    ELSE IF definition.kind = "FragmentDefinition" THEN SeedFragment(definition, ref)
    ELSE Effect(NoError, << >>, {})

\* the properties every plain object inherits from Object.prototype
ObjectPrototypeKeys ==
    {"constructor", "__proto__", "hasOwnProperty", "isPrototypeOf",
     "propertyIsEnumerable", "toLocaleString", "toString", "valueOf",
     "__defineGetter__", "__defineSetter__", "__lookupGetter__", "__lookupSetter__"}

\* typeToFieldsMap[type] on the plain object of line 105: an own property is the array
\* stored for an object type, an inherited one is a function or Object.prototype, and
\* anything else is undefined
PropertyOf(map, type) ==
    IF type \in DOMAIN map THEN [tag |-> "array", value |-> map[type]]
    ELSE IF type \in ObjectPrototypeKeys THEN [tag |-> "inherited", value |-> << >>]
    ELSE [tag |-> "undefined", value |-> << >>]

\* find with a predicate that holds of every entry: the first entry, whatever its name
Find_AnyField(typeAttributes, fieldName) ==
    IF typeAttributes = << >> THEN << >> ELSE << Head(typeAttributes) >>

\* typeAttributes.find(({ field }) => field === fieldName): << >> models undefined
Find(typeAttributes, fieldName) ==
    LET hits == SelectSeq(typeAttributes, LAMBDA a : a.field = fieldName)
    IN  IF hits = << >> THEN << >> ELSE << Head(hits) >>

\* the template literal of line 202
Coordinate(type, fieldName) == type \o "." \o fieldName

\* a fragment spread treated like a field: its name is added under the frame's type
OnFragmentSpread_AddsName(type, selection, ref, map) ==
    Effect(NoError, << >>, {Coordinate(type, selection.name)})

\* lines 183-186
OnFragmentSpread(type, selection, ref, map) == Effect(NoError, << >>, {})

\* an inline fragment without a type condition dropped instead of walked
OnInlineFragment_UntypedDropped(type, selection, ref, map) ==
    IF "typeCondition" \notin DOMAIN selection
    THEN Effect(NoError, << >>, {})
    ELSE Effect(NoError, << Frame(selection.typeCondition.name, ref) >>, {})

\* an inline fragment that always keeps the type of the frame it is in
OnInlineFragment_KeepType(type, selection, ref, map) ==
    Effect(NoError, << Frame(type, ref) >>, {})

\* lines 188-196
OnInlineFragment(type, selection, ref, map) ==
    IF "typeCondition" \notin DOMAIN selection
    THEN Effect(NoError, << Frame(type, ref) >>, {})
    ELSE Effect(NoError, << Frame(selection.typeCondition.name, ref) >>, {})

\* lines 198-256
OnField(type, selection, ref, map) ==
    LET fieldName == selection.name
        added == {Coordinate(type, fieldName)}
    IN  IF "selectionSet" \notin DOMAIN selection THEN Effect(NoError, << >>, added)
        ELSE LET typeAttributes == PropertyOf(map, type)
             IN  IF typeAttributes.tag = "undefined" THEN Effect(NoError, << >>, added)
                 ELSE IF typeAttributes.tag = "inherited"
                 THEN Effect(TypeError, << >>, added)
                 ELSE LET fieldType == Find(typeAttributes.value, fieldName)
                      IN  IF fieldType = << >> THEN Effect(NoError, << >>, added)
                          ELSE Effect(NoError, << Frame(fieldType[1].type, ref) >>, added)

\* only the first selection of a selection set processed
ProcessSelection_FirstOnly(type, selection, ref, map) ==
    IF Last(ref) # 1 THEN Effect(NoError, << >>, {})
    ELSE IF selection.kind = "FragmentSpread"
    THEN OnFragmentSpread(type, selection, ref, map)
    ELSE IF selection.kind = "InlineFragment"
    THEN OnInlineFragment(type, selection, ref, map)
    ELSE OnField(type, selection, ref, map)

\* lines 174-257: the callback of selectionSet.selections.forEach; ref is the place of
\* the selection's own selection set
ProcessSelection(type, selection, ref, map) ==
    IF selection.kind = "FragmentSpread" THEN OnFragmentSpread(type, selection, ref, map)
    ELSE IF selection.kind = "InlineFragment"
    THEN OnInlineFragment(type, selection, ref, map)
    ELSE OnField(type, selection, ref, map)

(***************************************************************************)
(* The call as a function of its two inputs.                                *)
(***************************************************************************)
Apply(st, eff) ==
    [thrown |-> eff.thrown,
     queue |-> st.queue \o eff.frames,
     schemaCoordinates |-> st.schemaCoordinates \cup eff.coordinates]

\* lines 125-166 from definition d on
RECURSIVE SeedRoots(_, _, _, _)
SeedRoots(ast, schema, d, st) ==
    IF d > Len(ast.definitions) \/ st.thrown # NoError THEN st
    ELSE SeedRoots(ast, schema, d + 1,
                   Apply(st, SeedDefinition(ast.definitions[d], << d >>, schema)))

\* line 174 from selection i of the frame on
RECURSIVE ForEachSelection(_, _, _, _, _)
ForEachSelection(ast, map, frame, i, st) ==
    LET selections == SelectionSetAt(ast, frame.selectionSet).selections
    IN  IF i > Len(selections) \/ st.thrown # NoError THEN st
        ELSE ForEachSelection(ast, map, frame, i + 1,
                 Apply(st, ProcessSelection(frame.type, selections[i],
                                            frame.selectionSet \o << i >>, map)))

\* a loop that ends after its first frame
Walk_OneFrame(ast, map, st) ==
    IF st.queue = << >> \/ st.thrown # NoError THEN st
    ELSE ForEachSelection(ast, map, Last(st.queue), 1, [st EXCEPT !.queue = Front(st.queue)])

\* lines 171-258
RECURSIVE Walk(_, _, _)
Walk(ast, map, st) ==
    IF st.queue = << >> \/ st.thrown # NoError THEN st
    ELSE Walk(ast, map,
              ForEachSelection(ast, map, Last(st.queue), 1,
                               [st EXCEPT !.queue = Front(st.queue)]))

\* lines 77-261: thrown is NoError when the call returns schemaCoordinates
extractSchemaCoordinates(ast, schema) ==
    LET seeded == SeedRoots(ast, schema, 1,
                      [thrown |-> NoError, queue |-> << >>, schemaCoordinates |-> {}])
    IN  IF seeded.thrown # NoError THEN seeded
        ELSE IF seeded.queue = << >> THEN [seeded EXCEPT !.thrown = AssertionError]
        ELSE Walk(ast, BuildTypeToFieldsMap(schema), seeded)

(***************************************************************************)
(* The call as a state machine: one step per callback and per loop test.    *)
(* visited and pushed are history variables: the (type, selection) pairs    *)
(* the walker has processed, and the frames pushed so far in push order.    *)
(***************************************************************************)
VARIABLES schemaText, documentAst, typeToFieldsMap, schemaCoordinates, queue,
          pc, definitionIndex, frame, selectionIndex, thrown, visited, pushed

\* What outlives a call.  documentText is the text of the call's document, named by the
\* AST a first parse of it gives; parseCache and buildSchemaCache are the caches of the
\* two memoized functions (lines 18 and 24), from the texts they were called with to
\* what they returned; results holds the sets that earlier calls returned, which
\* belong to the caller.
VARIABLES documentText, parseCache, buildSchemaCache, results

\* popped is a history variable: how many times each frame has been taken from the
\* queue
VARIABLE popped

memo == << documentText, parseCache, buildSchemaCache, results >>

vars == << schemaText, documentAst, typeToFieldsMap, schemaCoordinates, queue,
           pc, definitionIndex, frame, selectionIndex, thrown, visited, pushed,
           documentText, parseCache, buildSchemaCache, results, popped >>

\* a memoized function that keeps one slot for all its keys
Memoized_OneSlot(cache, key, result) ==
    IF DOMAIN cache # {} THEN cache[CHOOSE k \in DOMAIN cache : TRUE] ELSE result

\* lodash.memoize: the cached value of the key when there is one, else the result of
\* the function, which the cache then keeps
Memoized(cache, key, result) == IF key \in DOMAIN cache THEN cache[key] ELSE result
Remember(cache, key, result) ==
    IF key \in DOMAIN cache THEN cache ELSE cache @@ (key :> result)

\* line 79: the schema built, or recalled by memoize, from the schema text
builtSchema == Memoized(buildSchemaCache, schemaText, buildSchema(schemaText))

\* Texts the two collaborators reject.  A document text that parses is named by its
\* AST; one that does not is named by its characters.  graphql-js throws a
\* GraphQLError that says where the syntax is wrong: the document text lacks a
\* selection after its brace, the schema text the colon and type of its field.
Source(body) == [kind |-> "Source", body |-> body]
MalformedDocumentTexts == {Source("query {")}
MalformedSchemaTexts == {"type Query { a }"}
SyntaxError(description) ==
    [name |-> "GraphQLError", message |-> "Syntax Error: " \o description]
parseError == SyntaxError("Expected Name, found <EOF>.")
buildSchemaError == SyntaxError("Expected \":\", found \"}\".")

\* what a call of a collaborator gives: the error it throws (NoError when it returns)
\* and the value it returns; documentAst has no definitions when parse threw
Called(e, v) == [thrown |-> e, value |-> v]
NoDocument == Document(<< >>)
NoSchema == [rootTypes |-> << >>, typeMap |-> << >>]

\* a call of buildSchema whose error is caught and an empty schema used instead
CallBuildSchema_Caught(cache, text) ==
    IF text \in DOMAIN cache THEN Called(NoError, cache[text])
    ELSE IF text \in MalformedSchemaTexts THEN Called(NoError, NoSchema)
    ELSE Called(NoError, buildSchema(text))

\* line 79: the memoized buildSchema on the schema text; memoize keeps no result of a
\* call that threw, so a text that fails is built again by the next call
CallBuildSchema(cache, text) ==
    IF text \in DOMAIN cache THEN Called(NoError, cache[text])
    ELSE IF text \in MalformedSchemaTexts THEN Called(buildSchemaError, NoSchema)
    ELSE Called(NoError, buildSchema(text))

\* a call of parse whose error is caught and an empty document used instead
CallParse_Caught(cache, text) ==
    IF text \in DOMAIN cache THEN Called(NoError, cache[text])
    ELSE IF text \in MalformedDocumentTexts THEN Called(NoError, NoDocument)
    ELSE Called(NoError, text)

\* line 118: the memoized parse on the document text
CallParse(cache, text) ==
    IF text \in DOMAIN cache THEN Called(NoError, cache[text])
    ELSE IF text \in MalformedDocumentTexts THEN Called(parseError, NoDocument)
    ELSE Called(NoError, text)

\* line 119: new Set()
NewSet == {}

NoFrame == Frame("", << >>)

\* the first call of the process: both caches are empty
Init ==
    /\ \/ SmallDocument(documentAst)
       \/ documentAst \in TestDocuments \cup FragmentDocuments \cup UnionDocuments
                               \cup VariableDocuments
    /\ schemaText \in SchemaTexts
    /\ documentText = documentAst
    /\ parseCache = << >>
    /\ buildSchemaCache = << >>
    /\ results = << >>
    /\ typeToFieldsMap = << >>
    /\ schemaCoordinates = NewSet
    /\ queue = << >>
    /\ pc = "index"
    /\ definitionIndex = 1
    /\ frame = NoFrame
    /\ selectionIndex = 1
    /\ thrown = NoError
    /\ visited = {}
    /\ pushed = << >>
    /\ popped = << >>

\* lines 79-122: both memoized functions have been called when the queue is made
BuildIndex ==
    /\ pc = "index"
    /\ CallBuildSchema(buildSchemaCache, schemaText).thrown = NoError
    /\ CallParse(parseCache, documentText).thrown = NoError
    /\ typeToFieldsMap' = BuildTypeToFieldsMap(builtSchema)
    /\ buildSchemaCache' = Remember(buildSchemaCache, schemaText, builtSchema)
    /\ parseCache' = Remember(parseCache, documentText, documentAst)
    /\ pc' = "seed"
    /\ UNCHANGED << schemaText, documentAst, schemaCoordinates, queue, definitionIndex,
                    frame, selectionIndex, thrown, visited, pushed, documentText,
                    results, popped >>

\* one definition of documentAst.definitions.forEach
Seed(kinds, throws) ==
    /\ LET definition == documentAst.definitions[definitionIndex]
           eff == SeedDefinition(definition, << definitionIndex >>, builtSchema)
       IN  /\ definition.kind \in kinds
           /\ (eff.thrown # NoError) = throws
           /\ thrown' = eff.thrown
           /\ queue' = queue \o eff.frames
           /\ pushed' = pushed \o eff.frames
           /\ schemaCoordinates' = schemaCoordinates \cup eff.coordinates
           /\ pc' = IF throws THEN "error" ELSE "seed"
           /\ definitionIndex' = definitionIndex + 1
    /\ UNCHANGED << schemaText, documentAst, typeToFieldsMap, frame, selectionIndex,
                    visited, popped >>
    /\ UNCHANGED memo

\* the definitions that are neither operations nor fragments
OtherDefinitionKinds == {"ObjectTypeDefinition"}
MoreDefinitions == pc = "seed" /\ definitionIndex <= Len(documentAst.definitions)

SeedOperationDefinition ==
    /\ MoreDefinitions
    /\ Seed({"OperationDefinition"}, FALSE)

ThrowUnsupportedOperation ==
    /\ MoreDefinitions
    /\ Seed({"OperationDefinition"}, TRUE)

SeedFragmentDefinition ==
    /\ MoreDefinitions
    /\ Seed({"FragmentDefinition"}, FALSE)

SkipOtherDefinition ==
    /\ MoreDefinitions
    /\ Seed(OtherDefinitionKinds, FALSE)

\* line 168
AssertQueue(passes) ==
    /\ (Len(queue) > 0) = passes
    /\ pc' = IF passes THEN "walk" ELSE "error"
    /\ thrown' = IF passes THEN NoError ELSE AssertionError
    /\ UNCHANGED << schemaText, documentAst, typeToFieldsMap, schemaCoordinates, queue,
                    definitionIndex, frame, selectionIndex, visited, pushed, popped >>
    /\ UNCHANGED memo

\* the loop over the definitions left as soon as one definition has been seeded
NoMoreDefinitions_AfterFirst == pc = "seed" /\ definitionIndex > 1

NoMoreDefinitions == pc = "seed" /\ definitionIndex > Len(documentAst.definitions)

AssertPasses ==
    /\ NoMoreDefinitions
    /\ AssertQueue(TRUE)

AssertFails ==
    /\ NoMoreDefinitions
    /\ AssertQueue(FALSE)

\* the frame counted once more among the popped ones
PoppedOnceMore(f) ==
    IF f \in DOMAIN popped THEN [popped EXCEPT ![f] = @ + 1] ELSE popped @@ (f :> 1)

\* the last frame read and left on the queue
PopFrame_Peek ==
    /\ pc = "walk"
    /\ Len(queue) > 0
    /\ frame' = Last(queue)
    /\ popped' = PoppedOnceMore(Last(queue))
    /\ selectionIndex' = 1
    /\ pc' = "select"
    /\ UNCHANGED << schemaText, documentAst, typeToFieldsMap, schemaCoordinates, queue,
                    definitionIndex, thrown, visited, pushed >>
    /\ UNCHANGED memo

\* the set made anew for every frame popped
PopFrame_FreshSet ==
    /\ pc = "walk"
    /\ Len(queue) > 0
    /\ frame' = Last(queue)
    /\ queue' = Front(queue)
    /\ popped' = PoppedOnceMore(Last(queue))
    /\ schemaCoordinates' = NewSet
    /\ selectionIndex' = 1
    /\ pc' = "select"
    /\ UNCHANGED << schemaText, documentAst, typeToFieldsMap, definitionIndex, thrown,
                    visited, pushed >>
    /\ UNCHANGED memo

\* lines 171-172: the loop test holds and the last frame is popped
PopFrame ==
    /\ pc = "walk"
    /\ Len(queue) > 0
    /\ frame' = Last(queue)
    /\ queue' = Front(queue)
    /\ popped' = PoppedOnceMore(Last(queue))
    /\ selectionIndex' = 1
    /\ pc' = "select"
    /\ UNCHANGED << schemaText, documentAst, typeToFieldsMap, schemaCoordinates,
                    definitionIndex, thrown, visited, pushed >>
    /\ UNCHANGED memo

\* one selection of selectionSet.selections.forEach
Select(kind, throws) ==
    /\ LET selections == SelectionSetAt(documentAst, frame.selectionSet).selections
           selection == selections[selectionIndex]
           ref == frame.selectionSet \o << selectionIndex >>
           eff == ProcessSelection(frame.type, selection, ref, typeToFieldsMap)
       IN  /\ selection.kind = kind
           /\ (eff.thrown # NoError) = throws
           /\ thrown' = eff.thrown
           /\ queue' = queue \o eff.frames
           /\ pushed' = pushed \o eff.frames
           /\ schemaCoordinates' = schemaCoordinates \cup eff.coordinates
           /\ visited' = visited \cup {[type |-> frame.type, selection |-> ref]}
           /\ pc' = IF throws THEN "error"
                    ELSE IF selectionIndex = Len(selections) THEN "walk"
                    ELSE "select"
           /\ selectionIndex' = selectionIndex + 1
    /\ UNCHANGED << schemaText, documentAst, typeToFieldsMap, definitionIndex, frame,
                    popped >>
    /\ UNCHANGED memo

SelectFragmentSpread ==
    /\ pc = "select"
    /\ Select("FragmentSpread", FALSE)

SelectInlineFragment ==
    /\ pc = "select"
    /\ Select("InlineFragment", FALSE)

SelectField ==
    /\ pc = "select"
    /\ Select("Field", FALSE)

SelectFieldThrows ==
    /\ pc = "select"
    /\ Select("Field", TRUE)

\* line 171 with an empty queue, then line 260
Return ==
    /\ pc = "walk"
    /\ Len(queue) = 0
    /\ pc' = "done"
    /\ UNCHANGED << schemaText, documentAst, typeToFieldsMap, schemaCoordinates, queue,
                    definitionIndex, frame, selectionIndex, thrown, visited, pushed,
                    popped >>
    /\ UNCHANGED memo

Next ==
    \/ BuildIndex
    \/ SeedOperationDefinition
    \/ ThrowUnsupportedOperation
    \/ SeedFragmentDefinition
    \/ SkipOtherDefinition
    \/ AssertPasses
    \/ AssertFails
    \/ PopFrame
    \/ SelectFragmentSpread
    \/ SelectInlineFragment
    \/ SelectField
    \/ SelectFieldThrows
    \/ Return

Spec == Init /\ [][Next]_vars

\* the call has ended: it returned schemaCoordinates or it raised thrown
Returned == pc = "done"
Raised == pc = "error"

\* every run ends the way the function of the two inputs says
RunMatchesFunction ==
    (Returned \/ Raised) =>
        LET out == extractSchemaCoordinates(documentAst, builtSchema)
        IN  /\ out.thrown = thrown
            /\ Returned => out.schemaCoordinates = schemaCoordinates

(***************************************************************************)
(* What the schema declares, read off the type map without the index.       *)
(***************************************************************************)
\* the types of the type map with the given name: << >> when there is none
TypeNamed(schema, n) == SelectSeq(schema.typeMap, LAMBDA t : t.name = n)
Declares(schema, n) == TypeNamed(schema, n) # << >>
KindOf(schema, n) == IF Declares(schema, n) THEN TypeNamed(schema, n)[1].kind ELSE "none"

\* the fields type n declares in SDL (object and interface types have fields)
DeclaredFields(schema, n) ==
    IF KindOf(schema, n) \in {"GraphQLObjectType", "GraphQLInterfaceType"}
    THEN {f \in Range(TypeNamed(schema, n)[1].fields) : "astNode" \in DOMAIN f}
    ELSE {}
FieldDeclared(schema, n, f) == \E fd \in DeclaredFields(schema, n) : fd.name = f
DeclaredType(schema, n, f) ==
    (CHOOSE fd \in DeclaredFields(schema, n) : fd.name = f).astNode.type

\* the named type inside the list and non-null wrappers of a type node
RECURSIVE NamedTypeOf(_)
NamedTypeOf(t) == IF t.kind = "NamedType" THEN t.name ELSE NamedTypeOf(t.type)
ReturnTypeOf(schema, n, f) == NamedTypeOf(DeclaredType(schema, n, f))

\* the types the index has as keys
Indexed(schema, n) == KindOf(schema, n) = "GraphQLObjectType"

(***************************************************************************)
(* What the run has done, read off the history variables.                   *)
(***************************************************************************)
\* the selection whose selection set is at ref
SelectionAt(ast, ref) == SelectionSetAt(ast, Front(ref)).selections[Last(ref)]
Processed(v) == SelectionAt(documentAst, v.selection)
ProcessedFields == {v \in visited : Processed(v).kind = "Field"}
ProcessedParents == {v \in ProcessedFields : "selectionSet" \in DOMAIN Processed(v)}
ProcessedSpreads == {v \in visited : Processed(v).kind = "FragmentSpread"}

IsPrefix(p, q) == Len(p) <= Len(q) /\ SubSeq(q, 1, Len(p)) = p

\* the callback of line 174 threw while it processed the selection at ref
RaisedAt(ref) ==
    /\ Raised
    /\ frame # NoFrame
    /\ ref = frame.selectionSet \o << selectionIndex - 1 >>

\* the selection set at ref was pushed on the queue / was pushed under type n
Pushed(ref) == \E i \in 1..Len(pushed) : pushed[i].selectionSet = ref
PushedUnder(n, ref) ==
    /\ Pushed(ref)
    /\ \A i \in 1..Len(pushed) : pushed[i].selectionSet = ref => pushed[i].type = n

\* nothing at or below ref was pushed or processed
NothingBelow(ref) ==
    /\ \A i \in 1..Len(pushed) : ~IsPrefix(ref, pushed[i].selectionSet)
    /\ \A w \in visited : w.selection = ref \/ ~IsPrefix(ref, w.selection)

(***************************************************************************)
(* Field selections (lines 198-256).                                        *)
(***************************************************************************)
\* C1: every Field selection the walker processes in a frame of type T puts T.f in the
\* set, whatever T and f are, and processing it never raises.
FieldAlwaysYieldsCoordinate ==
    \A v \in ProcessedFields :
        /\ ~RaisedAt(v.selection)
        /\ Coordinate(v.type, Processed(v).name) \in schemaCoordinates

\* the coordinates of the selection set at ref, whose enclosing type is n, when every
\* field is declared on its enclosing type: [declared, coordinates]
RECURSIVE SelectedUnder(_, _, _, _)
SelectedUnder(schema, ast, n, ref) ==
    LET selections == SelectionSetAt(ast, ref).selections
        Of(i) ==
            LET s == selections[i]
            IN  IF s.kind = "FragmentSpread"
                THEN [declared |-> TRUE, coordinates |-> {}]
                ELSE IF s.kind = "InlineFragment"
                THEN SelectedUnder(schema, ast,
                         IF "typeCondition" \in DOMAIN s THEN s.typeCondition.name ELSE n,
                         ref \o << i >>)
                ELSE IF ~FieldDeclared(schema, n, s.name)
                THEN [declared |-> FALSE, coordinates |-> {}]
                ELSE IF "selectionSet" \notin DOMAIN s
                THEN [declared |-> TRUE, coordinates |-> {Coordinate(n, s.name)}]
                ELSE LET below == SelectedUnder(schema, ast,
                                      ReturnTypeOf(schema, n, s.name), ref \o << i >>)
                     IN  [declared |-> below.declared,
                          coordinates |-> {Coordinate(n, s.name)} \cup below.coordinates]
    IN  [declared |-> \A i \in 1..Len(selections) : Of(i).declared,
         coordinates |-> UNION {Of(i).coordinates : i \in 1..Len(selections)}]

\* the same for the whole document: an operation's enclosing type is the root type of
\* its kind, a fragment definition's is its type condition
SelectedInDocument(schema, ast) ==
    LET Of(d) ==
            LET definition == ast.definitions[d]
            IN  IF definition.kind = "OperationDefinition"
                THEN IF definition.operation \in DOMAIN schema.rootTypes
                     THEN SelectedUnder(schema, ast,
                              schema.rootTypes[definition.operation], << d >>)
                     ELSE [declared |-> FALSE, coordinates |-> {}]
                ELSE IF definition.kind = "FragmentDefinition"
                THEN SelectedUnder(schema, ast, definition.typeCondition.name, << d >>)
                ELSE [declared |-> TRUE, coordinates |-> {}]
    IN  [declared |-> \A d \in 1..Len(ast.definitions) : Of(d).declared,
         coordinates |-> UNION {Of(d).coordinates : d \in 1..Len(ast.definitions)}]

\* C2: when every selected field is declared on the type of its enclosing selection
\* set, the returned set has T.f for every field selection at every depth.
CompleteForDeclaredFields ==
    LET selected == SelectedInDocument(builtSchema, documentAst)
    IN  (Returned /\ selected.declared) => selected.coordinates \subseteq schemaCoordinates

\* the processed fields with a nested selection set that T declares, T in the index
DeclaredParents ==
    {v \in ProcessedParents :
        /\ Indexed(builtSchema, v.type)
        /\ FieldDeclared(builtSchema, v.type, Processed(v).name)}

\* C3: the nested selection set of a field f that T declares, T in the index, is walked
\* under f's declared return type without its list and non-null wrappers, so the fields
\* selected directly in it are qualified by that name.
NestedSetWalkedUnderReturnType ==
    \A v \in DeclaredParents :
        LET returnType == ReturnTypeOf(builtSchema, v.type, Processed(v).name)
            nested == Processed(v).selectionSet.selections
        IN  /\ PushedUnder(returnType, v.selection)
            /\ Returned =>
                 \A j \in 1..Len(nested) : nested[j].kind = "Field" =>
                    /\ [type |-> returnType, selection |-> v.selection \o << j >>]
                           \in visited
                    /\ Coordinate(returnType, nested[j].name) \in schemaCoordinates

\* a list-typed field that returns an interface was walked, with a field below it
InterfaceFieldWalked ==
    /\ Returned
    /\ \E v \in DeclaredParents :
          LET name == Processed(v).name
              returnType == ReturnTypeOf(builtSchema, v.type, name)
          IN  /\ DeclaredType(builtSchema, v.type, name).kind = "ListType"
              /\ KindOf(builtSchema, returnType) = "GraphQLInterfaceType"
              /\ \E w \in ProcessedFields :
                    w.type = returnType /\ Front(w.selection) = v.selection

\* the processed fields with a nested selection set that T does not declare, T in the
\* index
UndeclaredParents ==
    {v \in ProcessedParents :
        /\ Indexed(builtSchema, v.type)
        /\ ~FieldDeclared(builtSchema, v.type, Processed(v).name)}

\* C4: a field with a nested selection set that T, a type of the index, does not
\* declare is processed without raising, T.f is in the set, and nothing of its nested
\* selection set is pushed or processed.
UndeclaredFieldEndsDescent ==
    \A v \in UndeclaredParents :
        /\ ~RaisedAt(v.selection)
        /\ Coordinate(v.type, Processed(v).name) \in schemaCoordinates
        /\ NothingBelow(v.selection)

\* the call returned after an undeclared field with an inline fragment below it
UndeclaredFieldWithFragmentBelow ==
    /\ Returned
    /\ \E v \in UndeclaredParents :
          /\ \E s \in Range(Processed(v).selectionSet.selections) :
                s.kind = "InlineFragment"
          /\ Coordinate(v.type, Processed(v).name) \in schemaCoordinates

\* C5: under a type condition N the schema does not declare, whatever N is, the call
\* does not raise, each field selected directly under it yields N.f, and a nested
\* selection set of such a field is not walked.
UndeclaredTypeConditionTolerated ==
    \A v \in ProcessedFields :
        ~Declares(builtSchema, v.type) =>
            /\ ~RaisedAt(v.selection)
            /\ Coordinate(v.type, Processed(v).name) \in schemaCoordinates
            /\ NothingBelow(v.selection)

(***************************************************************************)
(* Seeding (lines 125-168).                                                 *)
(***************************************************************************)
\* the places of the operation definitions whose kind the schema binds to no root type
UnsupportedOperations ==
    {d \in 1..Len(documentAst.definitions) :
        /\ documentAst.definitions[d].kind = "OperationDefinition"
        /\ documentAst.definitions[d].operation \notin DOMAIN builtSchema.rootTypes}
FirstUnsupported == CHOOSE d \in UnsupportedOperations : \A e \in UnsupportedOperations : d <= e

\* C6: a document with an operation whose kind has no root type in the schema, wherever
\* it stands among the definitions, makes the call raise an error that names the kind;
\* no set is returned and no frame is ever popped.
UnsupportedOperationRaises ==
    UnsupportedOperations # {} =>
        /\ pc \in {"index", "seed", "error"}
        /\ pc = "seed" => definitionIndex <= FirstUnsupported
        /\ pc = "error" =>
             /\ thrown = GraphQLError(documentAst.definitions[FirstUnsupported].operation)
             /\ definitionIndex = FirstUnsupported + 1
        /\ visited = {}

\* the call raised for a subscription that follows a seeded operation
RaisedAfterSeeding ==
    /\ Raised
    /\ thrown = GraphQLError("subscription")
    /\ FirstUnsupported > 1
    /\ Len(queue) > 0

\* C7: a document without an operation definition makes the call fail with the
\* assertion of line 168, also when it holds fragment definitions only.
NoOperationRaises ==
    (/\ Returned \/ Raised
     /\ \A d \in Range(documentAst.definitions) : d.kind # "OperationDefinition")
        => Raised /\ thrown = AssertionError

(***************************************************************************)
(* Fragments (lines 162-165 and 183-186).                                   *)
(***************************************************************************)
\* the fragment definitions named n, in document order
FragmentsNamed(ast, n) ==
    SelectSeq(ast.definitions, LAMBDA d : d.kind = "FragmentDefinition" /\ d.name = n)

\* a fragment name no document of the model defines
Unspread == "unspread"

\* what may stand in the place of the spread s: the selections of the fragment it
\* names, an inline fragment on the fragment's type condition with those selections,
\* the spread twice, or a spread of no fragment
Replacements(ast, how, s) ==
    LET named == FragmentsNamed(ast, s.name)
    IN  IF how = "selections"
        THEN IF named = << >> THEN {} ELSE {named[1].selectionSet.selections}
        ELSE IF how = "inline fragment"
        THEN IF named = << >> THEN {}
             ELSE {<< InlineFragmentOn(named[1].typeCondition.name,
                                       named[1].selectionSet) >>}
        ELSE IF how = "twice" THEN {<< s, s >>}
        ELSE {<< FragmentSpread(Unspread) >>}

\* the sequences of selections with one spread, at any depth, replaced
RECURSIVE OneSpreadReplaced(_, _, _)
OneSpreadReplaced(ast, how, selections) ==
    UNION { LET s == selections[i]
                before == SubSeq(selections, 1, i - 1)
                after == SubSeq(selections, i + 1, Len(selections))
            IN  IF s.kind = "FragmentSpread"
                THEN {before \o r \o after : r \in Replacements(ast, how, s)}
                ELSE IF "selectionSet" \in DOMAIN s
                THEN {before \o << [s EXCEPT !.selectionSet = SelectionSet(n)] >> \o after :
                        n \in OneSpreadReplaced(ast, how, s.selectionSet.selections)}
                ELSE {}
          : i \in 1..Len(selections) }

\* the documents with one spread replaced
WithOneSpreadReplaced(ast, how) ==
    UNION { LET definition == ast.definitions[d]
            IN  IF "selectionSet" \in DOMAIN definition
                THEN {[ast EXCEPT !.definitions[d].selectionSet = SelectionSet(n)] :
                        n \in OneSpreadReplaced(ast, how,
                                                definition.selectionSet.selections)}
                ELSE {}
          : d \in 1..Len(ast.definitions) }

\* how a call ends: the error it raises, or the set it returns
Outcome(ast) ==
    LET out == extractSchemaCoordinates(ast, builtSchema)
    IN  [thrown |-> out.thrown,
         returned |-> IF out.thrown = NoError THEN out.schemaCoordinates ELSE {}]
RunOutcome == [thrown |-> thrown, returned |-> IF Returned THEN schemaCoordinates ELSE {}]
Ended == Returned \/ Raised

FragmentDefinitions ==
    {d \in 1..Len(documentAst.definitions) :
        documentAst.definitions[d].kind = "FragmentDefinition"}

\* the coordinates a walk from the selection set at ref under type n gives when
\* nothing raises
RECURSIVE ReachedFrom(_, _, _, _)
ReachedFrom(schema, ast, n, ref) ==
    LET selections == SelectionSetAt(ast, ref).selections
        Of(i) ==
            LET s == selections[i]
            IN  IF s.kind = "FragmentSpread" THEN {}
                ELSE IF s.kind = "InlineFragment"
                THEN ReachedFrom(schema, ast,
                         IF "typeCondition" \in DOMAIN s THEN s.typeCondition.name ELSE n,
                         ref \o << i >>)
                ELSE {Coordinate(n, s.name)} \cup
                     (IF /\ "selectionSet" \in DOMAIN s
                         /\ Indexed(schema, n)
                         /\ FieldDeclared(schema, n, s.name)
                      THEN ReachedFrom(schema, ast, ReturnTypeOf(schema, n, s.name),
                                       ref \o << i >>)
                      ELSE {})
    IN  UNION {Of(i) : i \in 1..Len(selections)}

\* C9: every fragment definition is seeded as a root under its type condition, so its
\* fields are in the result, qualified by that type and the types reached from it, and
\* the call ends the same way with one spread more or one spread fewer.
FragmentSeededHoweverSpread ==
    /\ \A d \in FragmentDefinitions :
          LET condition == documentAst.definitions[d].typeCondition.name
          IN  /\ pc \in {"walk", "select", "done"} => PushedUnder(condition, << d >>)
              /\ Returned => ReachedFrom(builtSchema, documentAst, condition, << d >>)
                                 \subseteq schemaCoordinates
    /\ Ended => \A other \in WithOneSpreadReplaced(documentAst, "twice")
                          \cup WithOneSpreadReplaced(documentAst, "unspread") :
                   Outcome(other) = RunOutcome

\* the call returned for a fragment spread twice whose fields reach another type
FragmentSpreadTwice ==
    /\ Returned
    /\ \E d \in FragmentDefinitions :
          LET definition == documentAst.definitions[d]
              reached == ReachedFrom(builtSchema, documentAst,
                                     definition.typeCondition.name, << d >>)
          IN  /\ Cardinality({v \in ProcessedSpreads :
                                 Processed(v).name = definition.name}) >= 2
              /\ Cardinality(reached) >= 2
              /\ reached \subseteq schemaCoordinates

\* the walker is about to process a fragment spread
AtFragmentSpread ==
    /\ pc = "select"
    /\ SelectionSetAt(documentAst, frame.selectionSet).selections[selectionIndex].kind
           = "FragmentSpread"

\* C10: processing a fragment spread adds no coordinate, pushes no frame and raises
\* nothing, whether or not the document defines the fragment: the set and the queue
\* are after it what they were before it.
SpreadLeavesWalkerUnchanged ==
    [][AtFragmentSpread =>
          /\ schemaCoordinates' = schemaCoordinates
          /\ queue' = queue
          /\ pushed' = pushed
          /\ thrown' = NoError
          /\ typeToFieldsMap' = typeToFieldsMap]_vars

\* t occurs in s
Contains(s, t) == \E i \in 1..(Len(s) - Len(t) + 1) : SubSeq(s, i, i + Len(t) - 1) = t

\* C10 as stated: no string that contains the name of a processed spread's fragment is
\* ever in the set.
SpreadNameNeverInResult ==
    \A v \in ProcessedSpreads : \A c \in schemaCoordinates : ~Contains(c, Processed(v).name)

\* a spread of a fragment the document does not define was processed, and the call
\* returned coordinates
UndefinedSpreadProcessed ==
    /\ Returned
    /\ schemaCoordinates # {}
    /\ \E v \in ProcessedSpreads : FragmentsNamed(documentAst, Processed(v).name) = << >>

(***************************************************************************)
(* Inline fragments (lines 188-196).                                        *)
(***************************************************************************)
ProcessedInlineFragments == {v \in visited : Processed(v).kind = "InlineFragment"}
TypedInlineFragments ==
    {v \in ProcessedInlineFragments : "typeCondition" \in DOMAIN Processed(v)}
UntypedInlineFragments == ProcessedInlineFragments \ TypedInlineFragments

\* the typed inline fragments processed in a frame of a union or interface type
NarrowingFragments ==
    {v \in TypedInlineFragments :
        KindOf(builtSchema, v.type) \in {"GraphQLUnionType", "GraphQLInterfaceType"}}

\* the places of the fields selected directly in the selection set at ref
DirectFields(ref) ==
    LET selections == SelectionSetAt(documentAst, ref).selections
    IN  {j \in 1..Len(selections) : selections[j].kind = "Field"}
DirectField(ref, j) == SelectionSetAt(documentAst, ref).selections[j]

\* the selection at ref \o <<j>> was processed under type n and under no other
ProcessedUnder(n, ref, j) ==
    \A w \in visited : w.selection = ref \o << j >> => w.type = n

\* C11: in a selection set walked under a union or interface type U, the fields written
\* directly in an inline fragment on Ci are processed under Ci, never under U, and the
\* returned set holds Ci.f for each of them, for every inline fragment of the set.
InlineFragmentsQualifyByCondition ==
    \A v \in NarrowingFragments :
        LET condition == Processed(v).typeCondition.name
        IN  /\ PushedUnder(condition, v.selection)
            /\ \A j \in DirectFields(v.selection) : ProcessedUnder(condition, v.selection, j)
            /\ Returned =>
                 \A j \in DirectFields(v.selection) :
                    /\ [type |-> condition, selection |-> v.selection \o << j >>]
                           \in visited
                    /\ Coordinate(condition, DirectField(v.selection, j).name)
                           \in schemaCoordinates

\* the call returned after two inline fragments on different types in one selection set
\* under an interface, and no field of theirs is qualified by the interface
TwoFragmentsUnderInterface ==
    /\ Returned
    /\ \E v, w \in NarrowingFragments :
          /\ Front(v.selection) = Front(w.selection)
          /\ Processed(v).typeCondition.name # Processed(w).typeCondition.name
          /\ DirectFields(v.selection) # {} /\ DirectFields(w.selection) # {}
          /\ \A j \in DirectFields(v.selection) :
                Coordinate(v.type, DirectField(v.selection, j).name)
                    \notin schemaCoordinates

\* C12: an inline fragment without a type condition is processed without raising and
\* its selection set is walked under the type of the frame that holds it, at any depth,
\* so the fields written directly in it are qualified by that type.
UntypedFragmentKeepsType ==
    \A v \in UntypedInlineFragments :
        /\ ~RaisedAt(v.selection)
        /\ PushedUnder(v.type, v.selection)
        /\ \A j \in DirectFields(v.selection) : ProcessedUnder(v.type, v.selection, j)
        /\ Returned =>
             \A j \in DirectFields(v.selection) :
                /\ [type |-> v.type, selection |-> v.selection \o << j >>] \in visited
                /\ Coordinate(v.type, DirectField(v.selection, j).name)
                       \in schemaCoordinates

\* the root type names of the schema
RootTypeNames == {builtSchema.rootTypes[k] : k \in DOMAIN builtSchema.rootTypes}

\* the call returned after an untyped inline fragment inside an untyped inline fragment,
\* both under a type condition, with a field in the inner one
UntypedChainUnderCondition ==
    /\ Returned
    /\ \E v, w \in UntypedInlineFragments :
          /\ Front(w.selection) = v.selection
          /\ v.type \notin RootTypeNames
          /\ w.type = v.type
          /\ \E j \in DirectFields(w.selection) :
                Coordinate(v.type, DirectField(w.selection, j).name) \in schemaCoordinates

(***************************************************************************)
(* Variables (lines 145-151).                                               *)
(***************************************************************************)
\* the variable definitions of the operations of the document
DeclaredVariables ==
    UNION {Range(d.variableDefinitions) :
              d \in {e \in Range(documentAst.definitions) : e.kind = "OperationDefinition"}}

\* the five scalars of the GraphQL specification
SpecifiedScalars == {"Int", "Float", "String", "Boolean", "ID"}

\* the elements of the set that are a bare name, not Type.field
BareNames == {c \in schemaCoordinates : ~Contains(c, ".")}

\* C13: the returned set holds as bare names exactly the types of the variables of the
\* operations, stripped of list and non-null wrappers, that are none of Int, Float,
\* String, Boolean and ID, whether or not the schema declares them; no other bare name
\* is ever in the set.
VariableTypesAreTheBareNames ==
    LET expected == {NamedTypeOf(variable.type) : variable \in DeclaredVariables}
                        \ SpecifiedScalars
    IN  /\ BareNames \subseteq expected
        /\ Returned => BareNames = expected

\* the call returned the type of a variable that the schema does not declare, for an
\* operation that also has a variable of a built-in scalar type
UndeclaredInputTypeReturned ==
    /\ Returned
    /\ \E variable \in DeclaredVariables :
          /\ variable.type.kind # "NamedType"
          /\ ~Declares(builtSchema, NamedTypeOf(variable.type))
          /\ NamedTypeOf(variable.type) \in schemaCoordinates
    /\ \E variable \in DeclaredVariables : NamedTypeOf(variable.type) \in SpecifiedScalars

(***************************************************************************)
(* Operations (lines 133-141).                                              *)
(***************************************************************************)
\* the document is made of fragment definitions and of operations of kinds that the
\* schema binds to a root type, one at least
OnlySupportedOperations ==
    /\ \A d \in Range(documentAst.definitions) :
          \/ d.kind = "FragmentDefinition"
          \/ /\ d.kind = "OperationDefinition"
             /\ d.operation \in DOMAIN builtSchema.rootTypes
    /\ \E d \in Range(documentAst.definitions) : d.kind = "OperationDefinition"

\* C14: a document made only of fragment definitions and of operations whose root type
\* the schema declares never makes the call raise, whatever names it uses.
SupportedOperationsNeverRaise == OnlySupportedOperations => ~Raised

\* the places of the operations that were seeded
SeededOperations ==
    {d \in 1..Len(documentAst.definitions) :
        /\ documentAst.definitions[d].kind = "OperationDefinition"
        /\ d < definitionIndex
        /\ documentAst.definitions[d].operation \in DOMAIN builtSchema.rootTypes}

\* what an operation could be mistaken to be qualified by: its kind and its name
KindAndName(definition) ==
    {definition.operation} \cup
        (IF "name" \in DOMAIN definition THEN {definition.name} ELSE {})

OperationDefinitions ==
    {d \in 1..Len(documentAst.definitions) :
        documentAst.definitions[d].kind = "OperationDefinition"}

\* the document of operation d and the fragment definitions, in document order
RECURSIVE KeepOperation(_, _)
KeepOperation(definitions, d) ==
    IF definitions = << >> THEN << >>
    ELSE (IF d = 1 \/ Head(definitions).kind = "FragmentDefinition"
          THEN << Head(definitions) >> ELSE << >>)
             \o KeepOperation(Tail(definitions), d - 1)
OperationAlone(d) == Document(KeepOperation(documentAst.definitions, d))

\* C16: the set returned for a document of several operations is the union of the sets
\* returned for the documents of one of its operations each, with the same fragment
\* definitions.
SeveralOperationsGiveUnion ==
    (Returned /\ Cardinality(OperationDefinitions) >= 2) =>
        /\ \A d \in OperationDefinitions : Outcome(OperationAlone(d)).thrown = NoError
        /\ schemaCoordinates =
              UNION {Outcome(OperationAlone(d)).returned : d \in OperationDefinitions}

\* the call returned for two operations that reach a coordinate each on its own and a
\* coordinate both
OperationsShareCoordinate ==
    /\ Returned
    /\ \E d, e \in OperationDefinitions :
          LET one == Outcome(OperationAlone(d)).returned
              other == Outcome(OperationAlone(e)).returned
          IN  /\ one \cap other # {}
              /\ one \ other # {}
              /\ other \ one # {}

(***************************************************************************)
(* The order of definitions and of selections.                              *)
(***************************************************************************)
\* s with its elements at i and j exchanged
Swap(s, i, j) == [s EXCEPT ![i] = s[j], ![j] = s[i]]
Swaps(s) == {Swap(s, i, j) : i, j \in 1..Len(s)} \ {s}

\* the sequences of selections with two selections of one selection set, at any depth,
\* exchanged
RECURSIVE SelectionsSwapped(_)
SelectionsSwapped(selections) ==
    Swaps(selections) \cup
    UNION { LET s == selections[i]
            IN  IF "selectionSet" \in DOMAIN s
                THEN {[selections EXCEPT ![i].selectionSet = SelectionSet(n)] :
                        n \in SelectionsSwapped(s.selectionSet.selections)}
                ELSE {}
          : i \in 1..Len(selections) }

\* the documents with two definitions, or two selections of one selection set, exchanged
Reordered(ast) ==
    {Document(ds) : ds \in Swaps(ast.definitions)} \cup
    UNION { LET definition == ast.definitions[d]
            IN  IF "selectionSet" \in DOMAIN definition
                THEN {[ast EXCEPT !.definitions[d].selectionSet = SelectionSet(n)] :
                        n \in SelectionsSwapped(definition.selectionSet.selections)}
                ELSE {}
          : d \in 1..Len(ast.definitions) }

\* C17: a document with two of its definitions exchanged, or with two selections of one
\* of its selection sets exchanged, returns the same set, or raises when the document
\* raises.
OrderDoesNotMatter ==
    Ended => \A other \in Reordered(documentAst) :
                LET out == Outcome(other)
                IN  /\ Raised <=> out.thrown # NoError
                    /\ Returned => out.returned = schemaCoordinates

\* the call returned several coordinates for a document with a reordering of its
\* definitions and a reordering of the selections of a nested selection set
ReorderedBothWays ==
    /\ Returned
    /\ Cardinality(schemaCoordinates) >= 3
    /\ Swaps(documentAst.definitions) # {}
    /\ \E v \in visited : Len(v.selection) >= 3 /\ Last(v.selection) = 2

(***************************************************************************)
(* A process that calls the function again and again.  The caches of parse  *)
(* and buildSchema outlive the calls, and the caller owns the sets that     *)
(* were returned to it.                                                     *)
(***************************************************************************)
\* the document texts the process calls the function with
CalledDocuments ==
    { Document(<< Query(<< Sub("animalOwner", << FragmentSpread("F") >>) >>),
                  FragmentDefinition("F", "Dog", SelectionSet(<< Field("name") >>)) >>),
      Document(<< Query(<< InlineFragmentOn("constructor", SelectionSet(
                              << Sub("name", << Field("name") >>) >>)) >>) >>),
      Document(<< OperationDefinition("subscription", << >>,
                                      SelectionSet(<< Field("name") >>)) >>),
      Document(<< TypeDefinition("Snake") >>) }

\* what the caller may add to a set it was given
CallerAdded == "caller.added"

\* what the caller keeps of a call that ended
EndedCall ==
    [documentText |-> documentText, schemaText |-> schemaText, thrown |-> thrown,
     set |-> IF Returned THEN schemaCoordinates ELSE {}]

FirstCall ==
    /\ documentAst \in CalledDocuments
    /\ schemaText \in SchemaTexts
    /\ documentText = documentAst
    /\ parseCache = << >>
    /\ buildSchemaCache = << >>
    /\ results = << >>
    /\ typeToFieldsMap = << >>
    /\ schemaCoordinates = NewSet
    /\ queue = << >>
    /\ pc = "index"
    /\ definitionIndex = 1
    /\ frame = NoFrame
    /\ selectionIndex = 1
    /\ thrown = NoError
    /\ visited = {}
    /\ pushed = << >>
    /\ popped = << >>

\* the call has ended and the caller calls again, with the same or other texts: lines
\* 79, 118 (parse recalls what it returned for the text), 119 and 122
CallAgain ==
    /\ Ended
    /\ Len(results) < MaxCalls
    /\ results' = Append(results, EndedCall)
    /\ \E text \in CalledDocuments, schema \in SchemaTexts :
          /\ documentText' = text
          /\ schemaText' = schema
          /\ documentAst' = Memoized(parseCache, text, text)
    /\ typeToFieldsMap' = << >>
    /\ schemaCoordinates' = NewSet
    /\ queue' = << >>
    /\ pc' = "index"
    /\ definitionIndex' = 1
    /\ frame' = NoFrame
    /\ selectionIndex' = 1
    /\ thrown' = NoError
    /\ visited' = {}
    /\ pushed' = << >>
    /\ popped' = << >>
    /\ UNCHANGED << parseCache, buildSchemaCache >>

\* between two calls the caller adds an element to a set an earlier call returned
CallerMutates ==
    /\ Ended
    /\ \E i \in 1..Len(results) :
          /\ results[i].thrown = NoError
          /\ CallerAdded \notin results[i].set
          /\ results' = [results EXCEPT ![i].set = @ \cup {CallerAdded}]
    /\ UNCHANGED << schemaText, documentAst, typeToFieldsMap, schemaCoordinates, queue,
                    pc, definitionIndex, frame, selectionIndex, thrown, visited, pushed,
                    documentText, parseCache, buildSchemaCache, popped >>

CallsNext ==
    \/ BuildIndex
    \/ SeedOperationDefinition
    \/ ThrowUnsupportedOperation
    \/ SeedFragmentDefinition
    \/ SkipOtherDefinition
    \/ AssertPasses
    \/ AssertFails
    \/ PopFrame
    \/ SelectFragmentSpread
    \/ SelectInlineFragment
    \/ SelectField
    \/ SelectFieldThrows
    \/ Return
    \/ CallAgain
    \/ CallerMutates

CallsSpec == FirstCall /\ [][CallsNext]_vars

\* how a first call with the texts of this call ends
FirstCallOutcome ==
    LET out == extractSchemaCoordinates(documentText, buildSchema(schemaText))
    IN  [thrown |-> out.thrown,
         returned |-> IF out.thrown = NoError THEN out.schemaCoordinates ELSE {}]

\* the earlier calls with the texts of this call
SameCallsBefore ==
    {i \in 1..Len(results) :
        /\ results[i].documentText = documentText
        /\ results[i].schemaText = schemaText}

\* C18: whatever calls came before, and whatever the caller did to the sets they
\* returned, a call ends the way a first call with its two texts ends, and the way the
\* earlier calls with the same texts ended.
CallsAreDeterministic ==
    Ended =>
        /\ RunOutcome = FirstCallOutcome
        /\ \A i \in SameCallsBefore :
              /\ results[i].thrown = thrown
              /\ results[i].set \ {CallerAdded} = RunOutcome.returned

\* a call returned the set of an earlier call with the same texts, after a call with
\* other texts and after the caller added an element to the earlier set
SameSetAfterOtherCalls ==
    /\ Returned
    /\ schemaCoordinates # {}
    /\ CallerAdded \notin schemaCoordinates
    /\ \E i \in SameCallsBefore : CallerAdded \in results[i].set
    /\ \E j \in 1..Len(results) : results[j].documentText # documentText

(***************************************************************************)
(* Termination.  The function is synchronous: a call that has begun takes   *)
(* its next step as long as it has one.                                     *)
(***************************************************************************)
FairSpec == Spec /\ WF_vars(Next)

\* every call ends: it returns or it raises
EveryCallEnds == <>Ended

\* the loop of line 171 has been entered
WalkEntered == pc \in {"walk", "select", "done"} \/ (Raised /\ frame # NoFrame)

\* C19: for every document and schema, once the walk loop is entered the call goes on
\* until the queue is empty and it returns, also when fragments spread each other or
\* themselves: it never stops before it has returned.
WalkLoopReturns == WalkEntered => (Returned \/ ENABLED Next)

(***************************************************************************)
(* Where the type names of the coordinates and of the frames come from.     *)
(***************************************************************************)
\* the type conditions of the inline fragments of a sequence of selections, at any
\* depth
RECURSIVE InlineConditions(_)
InlineConditions(selections) ==
    UNION { LET s == selections[i]
            IN  (IF s.kind = "InlineFragment" /\ "typeCondition" \in DOMAIN s
                 THEN {s.typeCondition.name} ELSE {})
                \cup (IF "selectionSet" \in DOMAIN s
                      THEN InlineConditions(s.selectionSet.selections) ELSE {})
          : i \in 1..Len(selections) }

\* the definitions of the document that have a selection set
Roots == {d \in Range(documentAst.definitions) : "selectionSet" \in DOMAIN d}

\* the type names the document gives: the root types of its operations, and the type
\* conditions of its fragment definitions and inline fragments
TypesOfDocument ==
    {builtSchema.rootTypes[d.operation] :
        d \in {e \in Roots : /\ e.kind = "OperationDefinition"
                             /\ e.operation \in DOMAIN builtSchema.rootTypes}}
    \cup {d.typeCondition.name : d \in {e \in Roots : e.kind = "FragmentDefinition"}}
    \cup UNION {InlineConditions(d.selectionSet.selections) : d \in Roots}

\* t is the return type the index holds for a field whose coordinate is in the set
TypeOfReachedField(t) ==
    \E u \in Range(builtSchema.typeMap) :
        /\ Indexed(builtSchema, u.name)
        /\ \E g \in DeclaredFields(builtSchema, u.name) :
              /\ NamedTypeOf(g.astNode.type) = t
              /\ Coordinate(u.name, g.name) \in schemaCoordinates
HasSource(t) == t \in TypesOfDocument \/ TypeOfReachedField(t)

\* C20: in every state, the type name of each field coordinate of the set, and of each
\* frame of the queue, is the root type of an operation of the document, the type
\* condition of a fragment definition or of an inline fragment, or the return type the
\* index holds for a field whose coordinate is in the set.
QualifiersHaveASource ==
    /\ schemaCoordinates \ BareNames =
          {Coordinate(v.type, Processed(v).name) : v \in ProcessedFields}
    /\ \A v \in ProcessedFields : HasSource(v.type)
    /\ \A i \in 1..Len(queue) : HasSource(queue[i].type)
    /\ pc = "select" => HasSource(frame.type)

\* in the middle of a walk, the queue holds a frame whose type comes from the index
\* alone and the set a coordinate qualified by such a type
ReturnTypeInQueueAndSet ==
    /\ pc = "select"
    /\ \E i \in 1..Len(queue) : queue[i].type \notin TypesOfDocument
    /\ \E v \in ProcessedFields :
          /\ v.type \notin TypesOfDocument
          /\ Coordinate(v.type, Processed(v).name) \in schemaCoordinates

(***************************************************************************)
(* The schema index (lines 105-116).                                        *)
(***************************************************************************)
\* the names of the types of the type map that are of one of the given kinds
TypesOfKind(schema, kinds) == {t.name : t \in {u \in Range(schema.typeMap) : u.kind \in kinds}}

\* the entries of the index for type n say what the schema declares: one entry per
\* field with AST info, fields of extensions included, in the order of the fields and
\* with the named type inside the wrappers of the declared type
EntriesAsDeclared(schema, map, n) ==
    LET fields == SelectSeq(TypeNamed(schema, n)[1].fields,
                            LAMBDA f : "astNode" \in DOMAIN f)
    IN  /\ Len(map[n]) = Len(fields)
        /\ \A i \in 1..Len(fields) :
              /\ DOMAIN map[n][i] = {"field", "type"}
              /\ map[n][i].field = fields[i].name
              /\ map[n][i].type = NamedTypeOf(fields[i].astNode.type)

\* C21: once built, the index has exactly the object types of the type map as keys
\* (no interface, union, scalar or input type), and for each of them exactly the
\* fields that carry AST info, each with the innermost named type of its declared type.
IndexHoldsObjectTypesOnly ==
    pc # "index" =>
        /\ DOMAIN typeToFieldsMap = TypesOfKind(builtSchema, {"GraphQLObjectType"})
        /\ DOMAIN typeToFieldsMap \cap
              TypesOfKind(builtSchema, {"GraphQLInterfaceType", "GraphQLUnionType",
                                        "GraphQLScalarType", "GraphQLInputObjectType"}) = {}
        /\ \A n \in DOMAIN typeToFieldsMap :
              EntriesAsDeclared(builtSchema, typeToFieldsMap, n)

\* the index of the pets schema: the field of the extension of ContactDetails and a
\* list-typed field are there with their named types, the introspection types have no
\* entries, and the interface, the union and the input type are no keys
PetsSchemaIndexed ==
    /\ pc # "index"
    /\ schemaText = "pets.schema.graphql"
    /\ [field |-> "address", type |-> "Address"] \in Range(typeToFieldsMap["ContactDetails"])
    /\ [field |-> "pets", type |-> "Pet"] \in Range(typeToFieldsMap["Root"])
    /\ [field |-> "addCat", type |-> "Cat"] \in Range(typeToFieldsMap["Mutation"])
    /\ typeToFieldsMap["__Schema"] = << >>
    /\ {"Animal", "Pet", "VetDetailsInput", "String"} \cap DOMAIN typeToFieldsMap = {}

(***************************************************************************)
(* Texts that do not parse.  buildSchema (line 79) and parse (line 118) are *)
(* called outside any try block, so what they throw leaves the function.    *)
(***************************************************************************)
\* the texts of a call: those of the test suite and of the process above, and the
\* malformed ones
TextsInit ==
    /\ documentText \in TestDocuments \cup FragmentDocuments \cup CalledDocuments
                         \cup MalformedDocumentTexts
    /\ schemaText \in SchemaTexts \cup MalformedSchemaTexts
    /\ documentAst = CallParse(<< >>, documentText).value
    /\ parseCache = << >>
    /\ buildSchemaCache = << >>
    /\ results = << >>
    /\ typeToFieldsMap = << >>
    /\ schemaCoordinates = NewSet
    /\ queue = << >>
    /\ pc = "index"
    /\ definitionIndex = 1
    /\ frame = NoFrame
    /\ selectionIndex = 1
    /\ thrown = NoError
    /\ visited = {}
    /\ pushed = << >>
    /\ popped = << >>

\* line 79 throws: nothing has been made yet
BuildSchemaThrows ==
    /\ pc = "index"
    /\ CallBuildSchema(buildSchemaCache, schemaText).thrown # NoError
    /\ thrown' = CallBuildSchema(buildSchemaCache, schemaText).thrown
    /\ pc' = "error"
    /\ UNCHANGED << schemaText, documentAst, typeToFieldsMap, schemaCoordinates, queue,
                    definitionIndex, frame, selectionIndex, visited, pushed, popped >>
    /\ UNCHANGED memo

\* line 118 throws: the schema has been built and indexed (lines 79-116), the set and
\* the queue of lines 119-122 have not been made
ParseThrows ==
    /\ pc = "index"
    /\ CallBuildSchema(buildSchemaCache, schemaText).thrown = NoError
    /\ CallParse(parseCache, documentText).thrown # NoError
    /\ typeToFieldsMap' = BuildTypeToFieldsMap(builtSchema)
    /\ buildSchemaCache' = Remember(buildSchemaCache, schemaText, builtSchema)
    /\ thrown' = CallParse(parseCache, documentText).thrown
    /\ pc' = "error"
    /\ UNCHANGED << schemaText, documentAst, schemaCoordinates, queue, definitionIndex,
                    frame, selectionIndex, visited, pushed, documentText, parseCache,
                    results, popped >>

TextsNext ==
    \/ BuildIndex
    \/ BuildSchemaThrows
    \/ ParseThrows
    \/ SeedOperationDefinition
    \/ ThrowUnsupportedOperation
    \/ SeedFragmentDefinition
    \/ SkipOtherDefinition
    \/ AssertPasses
    \/ AssertFails
    \/ PopFrame
    \/ SelectFragmentSpread
    \/ SelectInlineFragment
    \/ SelectField
    \/ SelectFieldThrows
    \/ Return

TextsSpec == TextsInit /\ [][TextsNext]_vars

\* no definition has been seeded and no frame walked
NothingSeededOrWalked ==
    /\ definitionIndex = 1
    /\ pushed = << >>
    /\ queue = << >>
    /\ visited = {}
    /\ frame = NoFrame
    /\ schemaCoordinates = {}

\* C22: a call whose schema text buildSchema rejects, or whose document text parse
\* rejects, raises the error of that collaborator as it is (the one of buildSchema when
\* both texts are malformed), never returns a set, and seeds and walks nothing.
CollaboratorFailurePropagates ==
    (schemaText \in MalformedSchemaTexts \/ documentText \in MalformedDocumentTexts) =>
        /\ NothingSeededOrWalked
        /\ pc \in {"index", "error"}
        /\ pc = "index" => ENABLED TextsNext
        /\ Raised =>
              thrown = IF schemaText \in MalformedSchemaTexts
                       THEN buildSchemaError
                       ELSE parseError

\* parse rejected the document after the schema was built and indexed
ParseFailedAfterIndexing ==
    /\ Raised
    /\ documentText \in MalformedDocumentTexts
    /\ thrown = parseError
    /\ typeToFieldsMap # << >>
    /\ schemaText \in DOMAIN buildSchemaCache
    /\ parseCache = << >>

(***************************************************************************)
(* Fields selected under an interface or a union (lines 211-225).           *)
(***************************************************************************)
\* the processed fields with a nested selection set whose frame has the name of an
\* interface or a union of the schema
AbstractParents ==
    {v \in ProcessedParents :
        KindOf(builtSchema, v.type) \in {"GraphQLInterfaceType", "GraphQLUnionType"}}

UnionFieldNotWalked ==
    /\ Returned
    /\ \E v \in AbstractParents : KindOf(builtSchema, v.type) = "GraphQLUnionType"
    /\ schemaCoordinates = {"Root.pets", "Pet.name", "Dog.breed"}

(***************************************************************************)
(* Seeding (lines 125-166) comes before walking (lines 171-258).            *)
(***************************************************************************)
\* the first frame has been popped
FirstPopDone == frame # NoFrame

\* every definition has been seeded: each operation and each fragment definition has
\* had its root frame pushed, and the types of the variables are in the set
AllSeeded ==
    /\ definitionIndex > Len(documentAst.definitions)
    /\ \A d \in 1..Len(documentAst.definitions) :
          documentAst.definitions[d].kind \in {"OperationDefinition", "FragmentDefinition"}
              => Pushed(<< d >>)
    /\ {NamedTypeOf(variable.type) : variable \in DeclaredVariables} \ SpecifiedScalars
          \subseteq schemaCoordinates

\* the unsupported-operation error or the assertion of line 168 can fire or has fired
SeedingOrRaisedBySeeding ==
    \/ pc = "seed"
    \/ /\ Raised
       /\ thrown \in {GraphQLError(operation) : operation \in OperationKinds}
                         \cup {AssertionError}

\* the frames pushed by the step
NewlyPushed == {pushed'[i] : i \in (Len(pushed) + 1)..Len(pushed')}

\* a step after the first pop pushes no root frame and adds no bare name
WalkStepSeedsNothing ==
    FirstPopDone =>
        /\ \A f \in NewlyPushed : Len(f.selectionSet) > 1
        /\ \A c \in schemaCoordinates' \ schemaCoordinates : Contains(c, ".")
        /\ definitionIndex' = definitionIndex

\* C24: every definition is seeded before the first frame is popped; while definitions
\* are seeded, and when the unsupported-operation error or the assertion of line 168
\* fires, the set holds no field coordinate and no selection has been processed; after
\* the first pop no root frame is pushed and no bare name is added.
SeedingPrecedesWalking ==
    /\ [](FirstPopDone => AllSeeded)
    /\ [](SeedingOrRaisedBySeeding =>
            /\ ~FirstPopDone
            /\ visited = {}
            /\ schemaCoordinates = BareNames)
    /\ [][WalkStepSeedsNothing]_vars

\* in the middle of a walk of a document with two definitions and a variable: both
\* root frames were pushed before any nested frame, the bare name is in the set beside
\* a field coordinate, and a nested frame has been pushed
WalkingAfterSeedingTwo ==
    /\ pc = "select"
    /\ Len(documentAst.definitions) >= 2
    /\ Len(pushed) >= 3
    /\ Len(pushed[1].selectionSet) = 1
    /\ Len(pushed[2].selectionSet) = 1
    /\ Len(pushed[3].selectionSet) > 1
    /\ BareNames # {}
    /\ schemaCoordinates # BareNames

(***************************************************************************)
(* The queue as a bag of pending frames.  The code pops the last frame      *)
(* (line 172); the walker below takes any frame of the queue, the last and  *)
(* the first among them.                                                    *)
(***************************************************************************)
\* the queue without its i-th frame
Without(q, i) == SubSeq(q, 1, i - 1) \o SubSeq(q, i + 1, Len(q))

\* lines 171-172 with any pending frame taken instead of the last
TakeAnyFrame ==
    /\ pc = "walk"
    /\ \E i \in 1..Len(queue) :
          /\ frame' = queue[i]
          /\ queue' = Without(queue, i)
          /\ popped' = PoppedOnceMore(queue[i])
    /\ selectionIndex' = 1
    /\ pc' = "select"
    /\ UNCHANGED << schemaText, documentAst, typeToFieldsMap, schemaCoordinates,
                    definitionIndex, thrown, visited, pushed >>
    /\ UNCHANGED memo

AnyOrderNext ==
    \/ BuildIndex
    \/ SeedOperationDefinition
    \/ ThrowUnsupportedOperation
    \/ SeedFragmentDefinition
    \/ SkipOtherDefinition
    \/ AssertPasses
    \/ AssertFails
    \/ TakeAnyFrame
    \/ SelectFragmentSpread
    \/ SelectInlineFragment
    \/ SelectField
    \/ SelectFieldThrows
    \/ Return

AnyOrderSpec == Init /\ [][AnyOrderNext]_vars

\* C25: whichever pending frame the walker takes next (the last, the first or any
\* other), the call ends the way the code's last-in-first-out walk ends: it returns the
\* same set, or it raises when the code raises.
QueueOrderDoesNotMatter ==
    Ended => RunOutcome = Outcome(documentAst)

\* the walker returned several coordinates after an order the code never takes: the
\* last frame it took lies under another definition than the first, whose root frame
\* the code takes after all the others
ReturnedAfterAnotherOrder ==
    /\ Returned
    /\ Pushed(<< 1 >>)
    /\ frame.selectionSet[1] # 1
    /\ Len(pushed) >= 3
    /\ Cardinality(schemaCoordinates) >= 3

(***************************************************************************)
(* The frames of one call: pushed at lines 141, 164, 191, 193 and 250,      *)
(* popped at line 172.                                                      *)
(***************************************************************************)
\* the number of selection sets of a sequence of selections, nested ones included
RECURSIVE SelectionSetsBelow(_)
SelectionSetsBelow(selections) ==
    IF selections = << >> THEN 0
    ELSE (IF "selectionSet" \in DOMAIN Head(selections)
          THEN 1 + SelectionSetsBelow(Head(selections).selectionSet.selections)
          ELSE 0) + SelectionSetsBelow(Tail(selections))

\* the number of selection sets of the definitions
RECURSIVE SelectionSetsOf(_)
SelectionSetsOf(definitions) ==
    IF definitions = << >> THEN 0
    ELSE (IF "selectionSet" \in DOMAIN Head(definitions)
          THEN 1 + SelectionSetsBelow(Head(definitions).selectionSet.selections)
          ELSE 0) + SelectionSetsOf(Tail(definitions))

\* how many times frame f has been popped
TimesPopped(f) == IF f \in DOMAIN popped THEN popped[f] ELSE 0

\* no selection set has been pushed more than once, and no more frames have been pushed
\* than the document has selection sets
EachSelectionSetPushedOnce ==
    /\ \A i, j \in 1..Len(pushed) :
          pushed[i].selectionSet = pushed[j].selectionSet => i = j
    /\ Len(pushed) <= SelectionSetsOf(documentAst.definitions)

StepKeepsIndexDocumentAndSet ==
    pc # "index" =>
        /\ typeToFieldsMap' = typeToFieldsMap
        /\ documentAst' = documentAst
        /\ builtSchema' = builtSchema
        /\ schemaCoordinates \subseteq schemaCoordinates'

\* C27: no step of the walk modifies the schema index or the parsed document, and the
\* set only grows: the coordinate of every field processed so far is in the set in
\* every later state, the one in which the set is returned included.
WalkOnlyGrowsTheSet ==
    /\ [][StepKeepsIndexDocumentAndSet]_vars
    /\ [](\A v \in ProcessedFields :
            Coordinate(v.type, Processed(v).name) \in schemaCoordinates)
    /\ [](pc # "index" => typeToFieldsMap = BuildTypeToFieldsMap(buildSchema(schemaText)))

\* the call returned a set that grew over the steps of three frames or more
SetGrewOverSeveralFrames ==
    /\ Returned
    /\ Cardinality(DOMAIN popped) >= 3
    /\ Cardinality({v.type : v \in ProcessedFields}) >= 3
    /\ Cardinality(schemaCoordinates) >= 4

====
